---- MODULE Spec2Model ----
(***************************************************************************)
(* Model of qparams.add_query_params (src/qparams.py).                     *)
(*                                                                         *)
(* Strings are sequences of one-character strings, so that splitting,      *)
(* replacing and percent-encoding are computed character by character.     *)
(* Python values are tagged records; a list is a reference into `heap`,    *)
(* because lists are mutable objects the caller can still see after the    *)
(* call.                                                                   *)
(***************************************************************************)
EXTENDS Integers, Sequences, FiniteSets, TLC

VARIABLES
    argc,            \* len(args)
    arg_url,         \* args[0]
    arg_allow_dups,  \* args[1]
    arg_params,      \* args[2]
    arg_separator,   \* args[3]
    kwargs,          \* **kwargs, in the order iteritems() yields them
    heap,            \* contents of the list objects the caller passed in
    query,           \* local `query`
    params_dict,     \* local `params_dict`, as its iteritems() sequence
    separator,       \* local `separator`
    encoded,         \* local `encoded`, the new query string
    pc,              \* position in add_query_params
    result,          \* returned url
    raised,          \* name of the exception raised, or "none"
    round,           \* 1 for the first call, 2 when re-applied to its own result
    first            \* the url the first call returned, once it is re-applied

vars == <<argc, arg_url, arg_allow_dups, arg_params, arg_separator, kwargs, heap,
          query, params_dict, separator, encoded, pc, result, raised, round, first>>

-----------------------------------------------------------------------------
(* Bounds of the explored inputs.                                          *)

MaxChunks == 3
MaxFoldChunks == 2
MaxSeqLen == 2

-----------------------------------------------------------------------------
(* Python values.                                                          *)

Absent == [t |-> "absent"]
None == [t |-> "None"]
Str(s) == [t |-> "str", s |-> s]
Num(n) == [t |-> "int", n |-> n]
Tuple(e) == [t |-> "tuple", e |-> e]
ListRef(r) == [t |-> "list", ref |-> r]
Dict(items) == [t |-> "dict", items |-> items]
PyTrue == [t |-> "bool", b |-> TRUE]
PyFalse == [t |-> "bool", b |-> FALSE]

\* Python truth value of an argument.
Truthy(v) ==
    CASE v.t = "None" -> FALSE
      [] v.t = "absent" -> FALSE
      [] v.t = "bool" -> v.b
      [] v.t = "str" -> v.s # <<>>
      [] v.t = "int" -> v.n # 0
      [] v.t = "tuple" -> v.e # <<>>
      [] v.t = "dict" -> v.items # <<>>
      [] OTHER -> TRUE

\* x == y on Python values: lists compare by contents, a list never equals
\* a tuple or a scalar, and a str never equals an int.
PyEq(h, x, y) ==
    IF x.t = "list" /\ y.t = "list" THEN h[x.ref] = h[y.ref]
    ELSE IF x.t = "list" \/ y.t = "list" THEN FALSE
    ELSE x = y

-----------------------------------------------------------------------------
(* String primitives.                                                      *)

Contains(s, c) == \E i \in DOMAIN s : s[i] = c

\* index of the first occurrence of c in s, 0 when there is none
RECURSIVE FindFrom(_, _, _)
FindFrom(s, c, i) ==
    IF i > Len(s) THEN 0
    ELSE IF s[i] = c THEN i
    ELSE FindFrom(s, c, i + 1)

Find(s, c) == FindFrom(s, c, 1)

\* s.split(c)
RECURSIVE Split(_, _)
Split(s, c) ==
    LET i == Find(s, c)
    IN  IF i = 0 THEN <<s>>
        ELSE <<SubSeq(s, 1, i - 1)>> \o Split(SubSeq(s, i + 1, Len(s)), c)

\* s.replace(c, d)
Replace(s, c, d) == [i \in DOMAIN s |-> IF s[i] = c THEN d ELSE s[i]]

\* sep.join(parts)
RECURSIVE Join(_, _)
Join(parts, sep) ==
    IF parts = <<>> THEN <<>>
    ELSE IF Len(parts) = 1 THEN parts[1]
    ELSE parts[1] \o <<sep>> \o Join(Tail(parts), sep)

\* str(n) of a non-negative int
Digit(d) ==
    CASE d = 0 -> "0" [] d = 1 -> "1" [] d = 2 -> "2" [] d = 3 -> "3"
      [] d = 4 -> "4" [] d = 5 -> "5" [] d = 6 -> "6" [] d = 7 -> "7"
      [] d = 8 -> "8" [] OTHER -> "9"

RECURSIVE StrOfInt(_)
StrOfInt(n) ==
    IF n < 10 THEN <<Digit(n)>>
    ELSE StrOfInt(n \div 10) \o <<Digit(n % 10)>>

\* str(v) of a scalar
PyStr(v) ==
    CASE v.t = "str" -> v.s
      [] v.t = "int" -> StrOfInt(v.n)
      [] OTHER -> <<"N", "o", "n", "e">>

-----------------------------------------------------------------------------
(* urllib.quote / quote_plus / urlencode, as called by the module.         *)

AlwaysSafe ==
    {"a", "b", "c", "d", "e", "f", "g", "h", "i", "j", "k", "l", "m",
     "n", "o", "p", "q", "r", "s", "t", "u", "v", "w", "x", "y", "z",
     "A", "B", "C", "D", "E", "F", "G", "H", "I", "J", "K", "L", "M",
     "N", "O", "P", "Q", "R", "S", "T", "U", "V", "W", "X", "Y", "Z",
     "0", "1", "2", "3", "4", "5", "6", "7", "8", "9", "_", ".", "-"}

\* %XX of a character that is not always safe
PctCode(c) ==
    CASE c = "/" -> <<"%", "2", "F">>
      [] c = "%" -> <<"%", "2", "5">>
      [] c = "&" -> <<"%", "2", "6">>
      [] c = ";" -> <<"%", "3", "B">>
      [] c = "=" -> <<"%", "3", "D">>
      [] c = "?" -> <<"%", "3", "F">>
      [] c = "+" -> <<"%", "2", "B">>
      [] c = "#" -> <<"%", "2", "3">>
      [] OTHER -> <<"%", "2", "0">>

\* quote(s, safe='')
RECURSIVE quote(_)
quote(s) ==
    IF s = <<>> THEN <<>>
    ELSE (IF Head(s) \in AlwaysSafe THEN <<Head(s)>> ELSE PctCode(Head(s)))
         \o quote(Tail(s))

\* quote_plus(s): as quote(s, ''), a space becoming '+'
RECURSIVE quote_plus(_)
quote_plus(s) ==
    IF s = <<>> THEN <<>>
    ELSE (IF Head(s) = " " THEN <<"+">>
          ELSE IF Head(s) \in AlwaysSafe THEN <<Head(s)>>
          ELSE PctCode(Head(s)))
         \o quote_plus(Tail(s))

\* the tokens k=elt, one per element of a sequence value
RECURSIVE SeqTokens(_, _)
SeqTokens(k, elts) ==
    IF elts = <<>> THEN <<>>
    ELSE <<k \o <<"=">> \o quote_plus(PyStr(Head(elts)))>> \o SeqTokens(k, Tail(elts))

\* urlencode(((key, val),), True): a str and a non-sequence give key=val, a
\* sequence gives one key=elt per element, and the pieces are joined by '&'.
urlencode(h, key, val) ==
    LET k == quote_plus(key)
    IN  CASE val.t = "tuple" -> Join(SeqTokens(k, val.e), "&")
          [] val.t = "list" -> Join(SeqTokens(k, h[val.ref]), "&")
          [] OTHER -> k \o <<"=">> \o quote_plus(PyStr(val))

\* _append_encoded_params: the string appended to `encoded`
_append_encoded_params(h, key, val) ==
    IF val.t = "None" THEN quote(key) ELSE urlencode(h, key, val)

-----------------------------------------------------------------------------
(* urlparse / urlunparse on urls of the form path[?query].                 *)

\* urlparse(url): the model's urls carry no scheme, netloc, params or fragment
urlparse(url) ==
    LET i == Find(url, "?")
    IN  IF i = 0 THEN [path |-> url, query |-> <<>>]
        ELSE [path |-> SubSeq(url, 1, i - 1), query |-> SubSeq(url, i + 1, Len(url))]

\* urlunparse: the '?' is written only before a non-empty query
urlunparse(path, q) == IF q = <<>> THEN path ELSE path \o <<"?">> \o q

-----------------------------------------------------------------------------
(* The ordered dict `query_args` is a sequence of [key, val]; a fold state *)
(* is [dct, heap, err].                                                    *)

RECURSIVE IndexOfKey(_, _, _)
IndexOfKey(dct, key, i) ==
    IF i > Len(dct) THEN 0
    ELSE IF dct[i].key = key THEN i
    ELSE IndexOfKey(dct, key, i + 1)

\* a dict that moves a key it already holds to the end when it is assigned
SetItemMovesKey(dct, key, val) ==
    LET IsOther(e) == e.key # key
    IN  Append(SelectSeq(dct, IsOther), [key |-> key, val |-> val])

\* dct[key] = val on an OrderedDict: an existing key keeps its position
SetItem(dct, key, val) ==
    LET i == IndexOfKey(dct, key, 1)
    IN  IF i = 0 THEN Append(dct, [key |-> key, val |-> val])
        ELSE [dct EXCEPT ![i] = [key |-> key, val |-> val]]

_set_key(st, key, val) == [st EXCEPT !.dct = SetItem(st.dct, key, val)]

\* [x for x in a if x is not None and x not in seen and not seen.add(x)]
RECURSIVE Uniq(_, _)
Uniq(a, seen) ==
    IF a = <<>> THEN <<>>
    ELSE IF Head(a).t # "None" /\ Head(a) \notin seen
         THEN <<Head(a)>> \o Uniq(Tail(a), seen \cup {Head(a)})
         ELSE Uniq(Tail(a), seen)

\* _unique_list(a, b) on heap h: [val, heap, err]
_unique_list(h, a, b) ==
    IF a.t = "tuple" \/ (a.t = "None" /\ b.t = "None")
    THEN [val |-> None, heap |-> h, err |-> "AssertionError"]
    ELSE
      LET \* if not isinstance(a, list): a = [a]
          h1 == IF a.t = "list" THEN h ELSE Append(h, <<a>>)
          r1 == IF a.t = "list" THEN a.ref ELSE Len(h) + 1
          \* a = a + list(b) and a = a + b build a new list; a.append(b)
          \* changes the list object a in place
          h2 == CASE b.t = "tuple" -> Append(h1, h1[r1] \o b.e)
                  [] b.t = "list" -> Append(h1, h1[r1] \o h1[b.ref])
                  [] OTHER -> [h1 EXCEPT ![r1] = Append(@, b)]
          r2 == IF b.t \in {"tuple", "list"} THEN Len(h1) + 1 ELSE r1
          h3 == Append(h2, Uniq(h2[r2], {}))
      IN  [val |-> ListRef(Len(h3)), heap |-> h3, err |-> "none"]

_update_key(st, key, val) ==
    LET i == IndexOfKey(st.dct, key, 1)
    IN  IF i # 0
        THEN IF PyEq(st.heap, val, st.dct[i].val)
             THEN st
             ELSE LET r == _unique_list(st.heap, st.dct[i].val, val)
                  IN  IF r.err # "none"
                      THEN [st EXCEPT !.err = r.err]
                      ELSE [dct |-> SetItem(st.dct, key, r.val),
                            heap |-> r.heap, err |-> "none"]
        ELSE [st EXCEPT !.dct = SetItem(st.dct, key, val)]

\* key_update_fn(query_args, key, val); an exception ends the fold
key_update_fn(fn, st, key, val) ==
    IF st.err # "none" THEN st
    ELSE IF fn = "_set_key" THEN _set_key(st, key, val)
    ELSE _update_key(st, key, val)

\* one chunk of the query as (key, val)
ChunkEntry(chunk) ==
    LET i == Find(chunk, "=")
    IN  IF i # 0
        THEN [key |-> SubSeq(chunk, 1, i - 1),
              val |-> Str(SubSeq(chunk, i + 1, Len(chunk)))]
        ELSE [key |-> chunk, val |-> None]

\* the chunks of the query, none for an empty query
QueryEntries(q, sep) ==
    IF q = <<>> THEN <<>>
    ELSE LET chunks == Split(q, sep)
         IN  [i \in DOMAIN chunks |-> ChunkEntry(chunks[i])]

RECURSIVE FoldEntries(_, _, _)
FoldEntries(fn, st, entries) ==
    IF entries = <<>> THEN st
    ELSE FoldEntries(fn, key_update_fn(fn, st, Head(entries).key, Head(entries).val),
                     Tail(entries))

\* the strings _append_encoded_params appends for a sequence of (key, val)
EncodeAll(h, entries) ==
    [i \in DOMAIN entries |-> _append_encoded_params(h, entries[i].key, entries[i].val)]

\* _update_params: [encoded, heap, err]
_update_params(h, q, pd, kw, sep, fn) ==
    LET st == FoldEntries(fn, [dct |-> <<>>, heap |-> h, err |-> "none"],
                          QueryEntries(q, sep) \o pd \o kw)
    IN  [encoded |-> IF st.err = "none" THEN Join(EncodeAll(st.heap, st.dct), sep) ELSE <<>>,
         heap |-> st.heap, err |-> st.err]

\* _append_params: the new query string
_append_params(h, q, pd, kw, sep) ==
    LET enc == EncodeAll(h, pd \o kw)
    IN  IF q # <<>> THEN q \o <<sep>> \o Join(enc, sep) ELSE Join(enc, sep)

-----------------------------------------------------------------------------
(* The calls explored.                                                     *)

Policies == {PyTrue, PyFalse, None}

Entry(k, v) == [key |-> k, val |-> v]

\* queries of n chunks, neighbouring chunks joined by any of the separators
RECURSIVE QueriesOfLen(_, _, _)
QueriesOfLen(chunks, seps, n) ==
    IF n = 1 THEN chunks
    ELSE {q \o <<s>> \o c : q \in QueriesOfLen(chunks, seps, n - 1), s \in seps, c \in chunks}

Queries(chunks, seps, max) ==
    {<<>>} \cup UNION {QueriesOfLen(chunks, seps, n) : n \in 1..max}

UrlOf(q) == IF q = <<>> THEN <<"f">> ELSE <<"f", "?">> \o q

\* sequences of length n over a set of scalars
RECURSIVE SeqsOfLen(_, _)
SeqsOfLen(S, n) ==
    IF n = 0 THEN {<<>>}
    ELSE {Append(e, x) : e \in SeqsOfLen(S, n - 1), x \in S}

SeqsUpTo(S, max) == UNION {SeqsOfLen(S, n) : n \in 0..max}

\* queries whose separators vary: '&' only, ';' only, or both
SepQueries == Queries({<<"a">>, <<"b", "=", "1">>}, {"&", ";"}, MaxChunks)

SepParams ==
    {None, Dict(<<>>), Dict(<<Entry(<<"c">>, Str(<<"1">>))>>),
     Dict(<<Entry(<<"c">>, Tuple(<<Str(<<"1">>), Str(<<"2">>)>>))>>)}

SepKwargs == {<<>>, <<Entry(<<"d">>, None)>>}

SepArgs == {Str(<<"&">>), Str(<<";">>), Str(<<"b">>)}

Call(n, u, ad, p, sp, kw, h) ==
    [argc |-> n, url |-> u, allow_dups |-> ad, params |-> p, separator |-> sp,
     kwargs |-> kw, heap |-> h]

SepCalls ==
    {Call(1, UrlOf(q), Absent, Absent, Absent, kw, <<>>) :
        q \in SepQueries, kw \in SepKwargs}
    \cup {Call(2, UrlOf(q), ad, Absent, Absent, kw, <<>>) :
        q \in SepQueries, ad \in Policies, kw \in SepKwargs}
    \cup {Call(3, UrlOf(q), ad, p, Absent, kw, <<>>) :
        q \in SepQueries, ad \in Policies, p \in SepParams, kw \in SepKwargs}
    \cup {Call(4, UrlOf(q), ad, p, sp, kw, <<>>) :
        q \in SepQueries, ad \in Policies, p \in SepParams, sp \in SepArgs,
        kw \in SepKwargs}

\* queries and values for the key-update functions
FoldQueries ==
    Queries({<<"a">>, <<"a", "=", "1">>, <<"b", "=", "/">>, <<"/", "=", "1">>},
            {"&"}, MaxFoldChunks)

Scalars == {Str(<<"1">>), Num(1), None, Str(<<"/">>)}

Elements == {Str(<<"1">>), Num(1)}

\* a value of the params dict: a scalar, a tuple or a list (with its contents)
FoldValues ==
    {[val |-> v, heap |-> <<>>] : v \in Scalars}
    \cup {[val |-> Tuple(e), heap |-> <<>>] : e \in SeqsUpTo(Elements, MaxSeqLen)}
    \cup {[val |-> ListRef(1), heap |-> <<e>>] : e \in SeqsUpTo(Elements, MaxSeqLen)}

FoldKeys == {<<"a">>, <<"/">>}

FoldKwargs ==
    {<<>>} \cup {<<Entry(k, v)>> : k \in {<<"a">>, <<"c">>}, v \in Scalars \cup {Tuple(<<>>)}}

FoldCalls ==
    {Call(3, UrlOf(q), ad, Dict(<<>>), Absent, kw, <<>>) :
        q \in FoldQueries, ad \in Policies, kw \in FoldKwargs}
    \cup {Call(3, UrlOf(q), ad, Dict(<<Entry(k, v.val)>>), Absent, kw, v.heap) :
        q \in FoldQueries, ad \in Policies, k \in FoldKeys, v \in FoldValues,
        kw \in FoldKwargs}

\* no positional argument, five of them, and a third argument without iteritems()
OtherCalls ==
    {Call(0, Absent, Absent, Absent, Absent, <<>>, <<>>),
     Call(5, <<"a">>, Str(<<"b">>), Str(<<"c">>), Str(<<"d">>), <<>>, <<>>),
     Call(3, <<"a">>, PyTrue, Str(<<"b">>), Absent, <<>>, <<>>)}

Calls == SepCalls \cup FoldCalls \cup OtherCalls

Init ==
    \E c \in Calls :
        /\ argc = c.argc
        /\ arg_url = c.url
        /\ arg_allow_dups = c.allow_dups
        /\ arg_params = c.params
        /\ arg_separator = c.separator
        /\ kwargs = c.kwargs
        /\ heap = c.heap
        /\ query = <<>>
        /\ params_dict = <<>>
        /\ separator = ""
        /\ encoded = <<>>
        /\ pc = "call"
        /\ result = <<>>
        /\ raised = "none"
        /\ round = 1
        /\ first = <<>>

-----------------------------------------------------------------------------
(* add_query_params                                                        *)

_OTHER_SEPARATOR == [c \in {";", "&"} |-> IF c = ";" THEN "&" ELSE ";"]

ArgsUnchanged ==
    UNCHANGED <<argc, arg_url, arg_allow_dups, arg_params, arg_separator, kwargs>>

\* len(args) == 1 and not kwargs or len(args) > 2 and not args[2] and not kwargs
NothingToDo ==
    \/ argc = 1 /\ kwargs = <<>>
    \/ argc > 2 /\ ~Truthy(arg_params) /\ kwargs = <<>>

BadArity == argc = 0 \/ argc > 4

\* args[2] is used and has no iteritems()
NotDictLike == argc > 2 /\ Truthy(arg_params) /\ arg_params.t # "dict"

\* separator not in _OTHER_SEPARATOR
BadSeparator ==
    argc > 3 /\ ~(arg_separator.t = "str" /\ Len(arg_separator.s) = 1
                  /\ arg_separator.s[1] \in DOMAIN _OTHER_SEPARATOR)

\* ';' only for a query that holds ';' and no '&'
InferSeparatorUnlessAmpersand(q) ==
    IF q # <<>> /\ Contains(q, ";") /\ ~Contains(q, "&") THEN ";" ELSE "&"

\* ';' if query and ';' in query else '&'
InferSeparator(q) == IF q # <<>> /\ Contains(q, ";") THEN ";" ELSE "&"

\* the query made consistent with a given separator
Normalize(q, sep) ==
    IF q # <<>> /\ ~Contains(q, sep) /\ Contains(q, _OTHER_SEPARATOR[sep])
    THEN Replace(q, _OTHER_SEPARATOR[sep], sep)
    ELSE q

Raise(e) ==
    /\ pc' = "raised"
    /\ raised' = e
    /\ UNCHANGED <<heap, query, params_dict, separator, encoded, result, round, first>>
    /\ ArgsUnchanged

ArityError ==
    /\ pc = "call"
    /\ BadArity
    /\ Raise("TypeError: arity")

ReturnUnchanged ==
    /\ pc = "call"
    /\ ~BadArity
    /\ NothingToDo
    /\ pc' = "done"
    /\ result' = arg_url
    /\ UNCHANGED <<heap, query, params_dict, separator, encoded, raised, round, first>>
    /\ ArgsUnchanged

NotDictError ==
    /\ pc = "call"
    /\ ~BadArity
    /\ ~NothingToDo
    /\ NotDictLike
    /\ Raise("TypeError: not dict-like")

SeparatorError ==
    /\ pc = "call"
    /\ ~BadArity
    /\ ~NothingToDo
    /\ ~NotDictLike
    /\ BadSeparator
    /\ Raise("TypeError: separator")

\* lines 255-282: the locals before the merge
Parse ==
    /\ pc = "call"
    /\ ~BadArity
    /\ ~NothingToDo
    /\ ~NotDictLike
    /\ ~BadSeparator
    /\ params_dict' = (IF argc > 2 /\ Truthy(arg_params) THEN arg_params.items ELSE <<>>)
    /\ separator' = (IF argc > 3 THEN arg_separator.s[1]
                     ELSE InferSeparator(urlparse(arg_url).query))
    /\ query' = (IF argc > 3 THEN Normalize(urlparse(arg_url).query, arg_separator.s[1])
                 ELSE urlparse(arg_url).query)
    /\ pc' = "merge"
    /\ UNCHANGED <<heap, encoded, result, raised, round, first>>
    /\ ArgsUnchanged

\* allow_dups = (args[1] if len(args) > 1 else True)
allow_dups == IF argc > 1 THEN arg_allow_dups ELSE PyTrue

AppendParams ==
    /\ pc = "merge"
    /\ Truthy(allow_dups)
    /\ encoded' = _append_params(heap, query, params_dict, kwargs, separator)
    /\ pc' = "unparse"
    /\ UNCHANGED <<heap, query, params_dict, separator, result, raised, round, first>>
    /\ ArgsUnchanged

\* the merge under a key-update function; of the heap, the caller's list
\* objects remain
Update(fn) ==
    LET r == _update_params(heap, query, params_dict, kwargs, separator, fn)
    IN  /\ heap' = SubSeq(r.heap, 1, Len(heap))
        /\ encoded' = r.encoded
        /\ pc' = (IF r.err = "none" THEN "unparse" ELSE "raised")
        /\ raised' = r.err
        /\ UNCHANGED <<query, params_dict, separator, result, round, first>>
        /\ ArgsUnchanged

SetParams ==
    /\ pc = "merge"
    /\ ~Truthy(allow_dups)
    /\ allow_dups.t = "None"
    /\ Update("_set_key")

UpdateParams ==
    /\ pc = "merge"
    /\ ~Truthy(allow_dups)
    /\ allow_dups.t # "None"
    /\ Update("_update_key")

Return ==
    /\ pc = "unparse"
    /\ result' = urlunparse(urlparse(arg_url).path, encoded)
    /\ pc' = "done"
    /\ UNCHANGED <<heap, query, params_dict, separator, encoded, raised, round, first>>
    /\ ArgsUnchanged

\* the caller applies add_query_params(url, None, {key: value}) to the url
\* that call returned
Reapply ==
    /\ pc = "done"
    /\ round = 1
    /\ argc = 3
    /\ arg_allow_dups = None
    /\ arg_params.t = "dict"
    /\ Len(arg_params.items) = 1
    /\ kwargs = <<>>
    /\ arg_url' = result
    /\ first' = result
    /\ round' = 2
    /\ pc' = "call"
    /\ query' = <<>>
    /\ params_dict' = <<>>
    /\ separator' = ""
    /\ encoded' = <<>>
    /\ result' = <<>>
    /\ UNCHANGED <<argc, arg_allow_dups, arg_params, arg_separator, kwargs, heap, raised>>

Next ==
    \/ ArityError
    \/ ReturnUnchanged
    \/ NotDictError
    \/ SeparatorError
    \/ Parse
    \/ AppendParams
    \/ SetParams
    \/ UpdateParams
    \/ Return
    \/ Reapply

Spec == Init /\ [][Next]_vars

-----------------------------------------------------------------------------
(* Vocabulary of the properties.                                           *)

\* the query of the url the call was given, and of the url it returned
InQuery == urlparse(arg_url).query
OutQuery == urlparse(result).query

\* extraParams is empty or absent and overrides is empty
NoParams == (argc < 3 \/ ~Truthy(arg_params)) /\ kwargs = <<>>

\* the call went through the merge and returned
Merged == pc = "done" /\ separator # ""

IsAppend == Truthy(allow_dups)
IsDedupe == ~Truthy(allow_dups) /\ allow_dups.t # "None"
IsOverride == allow_dups.t = "None"

Supplied == params_dict \o kwargs

NonEmpty(s) == s # <<>>

\* the pieces between the unencoded '&' and ';' of a query
RECURSIVE SplitAny(_)
SplitAny(s) ==
    LET i == Find(s, "&")
        j == Find(s, ";")
        k == IF i = 0 THEN j ELSE IF j = 0 THEN i ELSE IF i < j THEN i ELSE j
    IN  IF k = 0 THEN <<s>>
        ELSE <<SubSeq(s, 1, k - 1)>> \o SplitAny(SubSeq(s, k + 1, Len(s)))

\* the first occurrences of the elements of a sequence, in order
RECURSIVE Distinct(_, _)
Distinct(s, seen) ==
    IF s = <<>> THEN <<>>
    ELSE IF Head(s) \in seen THEN Distinct(Tail(s), seen)
    ELSE <<Head(s)>> \o Distinct(Tail(s), seen \cup {Head(s)})

RECURSIVE IsSubseq(_, _)
IsSubseq(a, b) ==
    IF a = <<>> THEN TRUE
    ELSE IF b = <<>> THEN FALSE
    ELSE IF Head(a) = Head(b) THEN IsSubseq(Tail(a), Tail(b))
    ELSE IsSubseq(a, Tail(b))

Range(s) == {s[i] : i \in DOMAIN s}

KeyOfToken(tok) == ChunkEntry(tok).key

\* the keys of the non-empty tokens of the returned query, in order
OutKeys ==
    LET toks == SelectSeq(Split(OutQuery, separator), NonEmpty)
    IN  [i \in DOMAIN toks |-> KeyOfToken(toks[i])]

\* the keys of the non-empty chunks of the parsed query, then the supplied
\* keys, as they are written to the output: the appended query is kept as it
\* is, every other key is percent-encoded
ExpectedKeys ==
    LET chunks == SelectSeq(Split(query, separator), NonEmpty)
    IN  [i \in DOMAIN chunks |->
            IF IsAppend THEN KeyOfToken(chunks[i]) ELSE quote(KeyOfToken(chunks[i]))]
        \o [i \in DOMAIN Supplied |-> quote(Supplied[i].key)]

\* the value is a sequence that holds no value: it has no element other
\* than None
HoldsNoValue(v) ==
    \/ v.t = "tuple" /\ Range(v.e) \subseteq {None}
    \/ v.t = "list" /\ Range(heap[v.ref]) \subseteq {None}

\* the written keys of the supplied entries whose value is such a sequence
EmptiedKeys ==
    {quote(Supplied[i].key) : i \in {j \in DOMAIN Supplied : HoldsNoValue(Supplied[j].val)}}

\* one token per supplied entry, a sequence value giving one per element
RECURSIVE SuppliedTokens(_)
SuppliedTokens(entries) ==
    IF entries = <<>> THEN <<>>
    ELSE LET k == Head(entries).key
             v == Head(entries).val
         IN  (CASE v.t = "None" -> <<quote(k)>>
                [] v.t = "tuple" -> SeqTokens(quote_plus(k), v.e)
                [] v.t = "list" -> SeqTokens(quote_plus(k), heap[v.ref])
                [] OTHER -> <<quote_plus(k) \o <<"=">> \o quote_plus(PyStr(v))>>)
             \o SuppliedTokens(Tail(entries))

-----------------------------------------------------------------------------
(* Properties.                                                             *)

\* C1: with extraParams empty or absent, overrides empty and the separator
\* valid or absent, the call returns the url unchanged, whatever the call
\* shape and the policy.
NoOpReturnsUrl ==
    (pc = "done" /\ NoParams /\ ~BadSeparator) => result = arg_url

\* C2: when parameters are supplied, the returned query never contains both
\* an unencoded '&' and an unencoded ';'.
SeparatorConsistency ==
    (Merged /\ ~NoParams) => ~(Contains(OutQuery, "&") /\ Contains(OutQuery, ";"))

\* C3: under APPEND the returned query, split on the effective separator, is
\* the original chunks in order, then one token per supplied entry (one per
\* element of a sequence value), extraParams before overrides: at least as
\* many tokens as chunks plus supplied values, nothing dropped or grouped.
AppendKeepsEverything ==
    (Merged /\ IsAppend /\ ~NoParams) =>
        LET toks == Split(OutQuery, separator)
            orig == IF query = <<>> THEN <<>> ELSE Split(query, separator)
            new == SuppliedTokens(Supplied)
        IN  /\ Len(toks) >= Len(orig) + Len(new)
            /\ SelectSeq(toks, NonEmpty) = SelectSeq(orig, NonEmpty) \o new

\* C4: under DEDUPE_GROUP no two tokens of the returned query have the same
\* key and the same serialized value.
DedupeValuesDistinct ==
    (Merged /\ IsDedupe) =>
        LET toks == SelectSeq(SplitAny(OutQuery), NonEmpty)
        IN  \A i, j \in DOMAIN toks : toks[i] = toks[j] => i = j

\* C5: applying add_query_params(url, None, {key: value}) to its own result
\* returns that result again.
OverrideIdempotent ==
    (pc = "done" /\ round = 2) => result = first

\* C6 as stated: under each policy the distinct keys of the original query
\* are the first keys of the output, in the order of their first occurrence
\* in the original query, so that every supplied key that is new comes after
\* all of them.
KeysAllKeptInOrder ==
    Merged =>
        LET orig == Distinct(SubSeq(ExpectedKeys, 1, Len(ExpectedKeys) - Len(Supplied)), {})
            out == Distinct(OutKeys, {})
        IN  Len(out) >= Len(orig) /\ SubSeq(out, 1, Len(orig)) = orig

\* C6 as amended: under each policy the keys of the output are, in the order
\* of first occurrence, the distinct keys of the original query followed by
\* the supplied keys that are new, less only keys that were supplied a
\* sequence holding no value (such a key may be left without a token); so a
\* key keeps its first-occurrence position when a later entry merges into or
\* replaces its value.
KeyOrderPreserved ==
    Merged =>
        /\ IsSubseq(Distinct(OutKeys, {}), Distinct(ExpectedKeys, {}))
        /\ Range(ExpectedKeys) \ Range(OutKeys) \subseteq EmptiedKeys

\* C7: a separator argument that is neither '&' nor ';' always ends the call
\* in the invalid-separator error, whether or not parameters are supplied.
InvalidSeparatorRejected ==
    (argc = 4 /\ BadSeparator /\ pc # "call") =>
        (pc = "raised" /\ raised = "TypeError: separator")

\* C8: no step of a call changes the caller's arguments, in particular the
\* contents of a list held in extraParams or overrides.
ArgumentsUntouched ==
    [][(round' = round) =>
        (heap' = heap /\ arg_params' = arg_params /\ kwargs' = kwargs
         /\ arg_url' = arg_url)]_vars

\* C9 as stated: without a separator argument the effective separator is ';'
\* exactly when the existing query contains ';' and no '&'.
InferredOnlyWithoutAmpersand ==
    (argc < 4 /\ separator # "") =>
        (separator = ";" <=> (Contains(InQuery, ";") /\ ~Contains(InQuery, "&")))

\* C9 as amended: without a separator argument the effective separator is ';'
\* exactly when the existing query contains ';' (with or without '&'), and
\* '&' otherwise; APPEND joins the new tokens to the query with it.
InferredFromSemicolon ==
    (argc < 4 /\ separator # "") =>
        /\ separator = (IF Contains(InQuery, ";") THEN ";" ELSE "&")
        /\ (pc = "unparse" /\ IsAppend /\ InQuery # <<>>) =>
              SubSeq(encoded, 1, Len(InQuery) + 1)
                  = InQuery \o <<IF Contains(InQuery, ";") THEN ";" ELSE "&">>

\* C10: the assertions of _unique_list never fail.
NoAssertionError == raised # "AssertionError"

-----------------------------------------------------------------------------
(* Reachable cases of the properties that hold.                            *)

\* a call has returned that gave the first of two original keys another value
KeyOrderWitness ==
    /\ Merged
    /\ ~IsAppend
    /\ Len(Distinct(OutKeys, {})) >= 2
    /\ Supplied # <<>>
    /\ Supplied[1].key = QueryEntries(query, separator)[1].key
    /\ Supplied[1].val # QueryEntries(query, separator)[1].val
    /\ quote(Supplied[1].key) = OutKeys[1]

\* a query with both ';' and '&' has been given ';' as its separator
InferredWitness ==
    /\ pc = "unparse"
    /\ argc < 4
    /\ IsAppend
    /\ Contains(InQuery, ";")
    /\ Contains(InQuery, "&")
    /\ separator = ";"

====
